---- MODULE Spec2Model ----
(***************************************************************************)
(* Authorization layer of @myresto/shared: the AuthProvider session state, *)
(* the useAppRole and useSubscription hooks (React state + effects) and    *)
(* the gate components built on them.                                      *)
(*                                                                         *)
(* React is modelled as follows.  Hook state (useState) is a variable.  A  *)
(* render is a pure function of the current state, so what a hook returns  *)
(* is an operator over the variables.  An effect (useEffect) is an action  *)
(* of its own, enabled after a render whose dependency list differs from   *)
(* the one the effect last ran with: React commits the render first and    *)
(* runs passive effects afterwards, so the render that precedes the effect *)
(* is observable.                                                          *)
(***************************************************************************)
EXTENDS Naturals, Sequences, FiniteSets, Bags

\* ------------------------------------------------------------------ bounds
MaxInFlight == 2   \* store queries of one hook that may be in flight at once
MaxLog == 2        \* console.error lines kept
MaxClients == 2    \* createClient calls
MaxCalls == 2      \* provider calls of the forms that may be in flight at once
MaxIssued == 2     \* role queries counted for one (user, app) pair

\* -------------------------------------------------------------- the domain
NoUser == "null"

\* A session as far as this layer reads it: user.id and app_metadata.role.
NoSession == [id |-> NoUser, role |-> "none"]
Sessions ==
  { [id |-> "u1", role |-> "user"],
    [id |-> "u2", role |-> "user"],
    [id |-> "u3", role |-> "super_admin"] }

NoApp == "null"
Apps == {"event", "garage"}
NoOverride == "undefined"
\* the app arguments a caller passes to useAppRole / RequireRole
AppOverrides == {"garage"}

Roles == {"editor", "owner"}

\* rows of the user_roles table
UserRolesTable ==
  { [user_id |-> "u1", app |-> "event",  role |-> "editor"],
    [user_id |-> "u2", app |-> "garage", role |-> "owner"],
    [user_id |-> "u3", app |-> "garage", role |-> "owner"] }

Hostnames == {"myrestoevent.com", "localhost"}
Undefined == "undefined"
EnvAppIds == {Undefined}
\* typeof window === 'undefined'
NoWindow == "no window"
\* window.location.hostname of the pages getCurrentApp() is called on
AllHostnames ==
  {"myrestoevent.com", "www.myrestoevent.com", "myrestogarage.com",
   "www.myrestogarage.com", "myrestoclub.vercel.app", "myrestoshow.com",
   "localhost", "staging.myrestoevent.com", "constructor", NoWindow}
\* import.meta.env.VITE_APP_ID of the builds getCurrentApp() is called in
AllEnvAppIds == {Undefined, "", "garage", "show", "Event", "bogus"}
NotCalled == "not called"

VARIABLES
  providerSession,  \* the session the identity provider holds
  fetch,            \* the getSession() promise started at mount
  session,          \* AuthProvider: useState<Session | null>
  isLoaded,         \* AuthProvider: useState(false)
  authMounted,      \* AuthProvider is mounted (its listener is subscribed)
  hostname,         \* window.location.hostname
  viteAppId,        \* import.meta.env.VITE_APP_ID
  appOverride,      \* the appOverride argument of useAppRole
  roles,            \* useAppRole: useState<string[]>([])
  rolesLoading,     \* useAppRole: useState(true)
  roleDeps,         \* dependency list the role effect last ran with
  roleQueries,      \* user_roles queries in flight, one per slot
  roleSettled,      \* what the current role effect's query settled with
  roleMounted,      \* the component using useAppRole is mounted
  subscription,     \* useSubscription: useState<Subscription | null>(null)
  subLoading,       \* useSubscription: useState(true)
  subDeps,          \* dependency list the subscription effect last ran with
  subQueries,       \* subscriptions queries in flight
  subSettled,       \* what the current subscription effect's query settled with
  subMounted,       \* the component using useSubscription is mounted
  signOutPc,        \* where a call of signOut() stands
  consoleErrors,    \* console.error lines
  gateOutputs,      \* what each gate has rendered since the provider mounted
  evaluated,        \* the last evaluation of a hook or component by React
  env,              \* import.meta.env: VITE_SUPABASE_URL, VITE_SUPABASE_ANON_KEY
  supabaseClient,   \* let _supabase: SupabaseClient | null
  clientsCreated,   \* how many times createClient has been called
  lastGet,          \* how the last call of getSupabase() ended
  page,             \* the page loaded: it mounts SignIn or SignUp
  href,             \* window.location.href
  signIn,           \* SignIn: error, loading, view, forgotSent
  signUp,           \* SignUp: error, loading, success
  calls,            \* provider calls of the forms in flight
  lastAnswer,       \* the provider's reply to the latest call, once settled
  forgotResult,     \* what forgotPassword() last resolved with
  sessionObj,       \* which Session object the provider delivered last
  currentApp,       \* what the last call of getCurrentApp() returned
  keyLog            \* since the (user, app) pair last changed: role queries
                    \* issued, a session replaced, a query settled

provVars == <<providerSession, fetch, session, isLoaded, authMounted>>
envVars == <<hostname, viteAppId, currentApp>>
roleVars == <<appOverride, roles, rolesLoading, roleDeps, roleQueries,
              roleSettled, roleMounted>>
subVars == <<subscription, subLoading, subDeps, subQueries, subSettled,
             subMounted>>
clientVars == <<env, supabaseClient, clientsCreated, lastGet>>
formVars == <<page, href, signIn, signUp, calls, lastAnswer, forgotResult>>
refreshVars == <<sessionObj, keyLog>>
otherVars == <<gateOutputs, evaluated, clientVars, formVars, refreshVars>>
vars == <<provVars, envVars, roleVars, subVars, signOutPc, consoleErrors,
          otherVars>>

\* ------------------------------------------------------------ config.ts
AppIds == {"event", "garage", "club", "hub", "gear", "parts", "life",
           "rides", "track", "plate", "show"}
\* the object literal's own properties: hostname |-> entry.app
APP_CONFIG_Own ==
  [h \in {"myrestoevent.com", "www.myrestoevent.com", "myrestoevent.vercel.app"} |-> "event"] @@
  [h \in {"myrestogarage.com", "www.myrestogarage.com", "myrestogarage.vercel.app"} |-> "garage"] @@
  [h \in {"myrestoclub.com", "www.myrestoclub.com", "myrestoclub.vercel.app"} |-> "club"] @@
  [h \in {"myrestohub.com", "www.myrestohub.com"} |-> "hub"] @@
  [h \in {"myrestogear.com", "www.myrestogear.com"} |-> "gear"] @@
  [h \in {"myrestoparts.com", "www.myrestoparts.com"} |-> "parts"] @@
  [h \in {"myrestolife.com", "www.myrestolife.com"} |-> "life"] @@
  [h \in {"myrestorides.com", "www.myrestorides.com"} |-> "rides"] @@
  [h \in {"myrestotrack.com", "www.myrestotrack.com"} |-> "track"] @@
  [h \in {"myrestoplate.com", "www.myrestoplate.com"} |-> "plate"] @@
  [h \in {"myrestoshow.com", "www.myrestoshow.com"} |-> "show"]
\* APP_CONFIG is a plain object: APP_CONFIG[h] also finds what the object
\* inherits from Object.prototype, and those values have no `app`
ObjectPrototype == {"constructor", "__proto__"}
\* APP_CONFIG[h]?.app, NoApp when APP_CONFIG[h] is undefined
APP_CONFIG(h) ==
  IF h \in DOMAIN APP_CONFIG_Own THEN APP_CONFIG_Own[h]
  ELSE IF h \in ObjectPrototype THEN Undefined
  ELSE NoApp

isValidAppId(value) == value \in AppIds

getCurrentApp ==
  IF hostname # NoWindow /\ APP_CONFIG(hostname) # NoApp
    THEN APP_CONFIG(hostname)
  ELSE IF viteAppId \notin {Undefined, ""} /\ isValidAppId(viteAppId) THEN viteAppId
  ELSE NoApp

\* ------------------------------------------------- AuthProvider's context
ctxUser == session.id
ctxIsSignedIn == session # NoSession

\* useUser(): user is null without a session, else carries id and
\* publicMetadata = app_metadata
useUser ==
  IF ctxUser = NoUser
    THEN [user |-> NoSession, isSignedIn |-> FALSE, isLoaded |-> isLoaded]
    ELSE [user |-> session, isSignedIn |-> TRUE, isLoaded |-> TRUE]

useAuth ==
  [isLoaded |-> isLoaded, isSignedIn |-> ctxIsSignedIn, userId |-> ctxUser]

useIsSuperAdmin ==
  IF useUser.user = NoSession THEN FALSE
  ELSE useUser.user.role = "super_admin"

\* ------------------------------------------------------------- useAppRole
app_CurrentOnly == getCurrentApp
app == IF appOverride # NoOverride THEN appOverride ELSE getCurrentApp
userId == useUser.user.id

NoDeps == [userId |-> "unset", app |-> "unset", isSuperAdmin |-> FALSE]
RoleDepsNow_Session ==
  [userId |-> userId, app |-> app, isSuperAdmin |-> useIsSuperAdmin,
   session |-> sessionObj]
RoleDepsNow == [userId |-> userId, app |-> app, isSuperAdmin |-> useIsSuperAdmin]

\* A query in flight is [user, app, cancelled]: its two filters and the
\* `cancelled` variable its .then callback closes over.  The queries in
\* flight form a bag.
Cancel(q) == [q EXCEPT !.cancelled = TRUE]

\* the effect's cleanup: () => { cancelled = true }
Cleanup_Noop(qs) == qs
Cleanup(qs) == BagOfAll(Cancel, qs)

\* .from('user_roles').select('role').eq('user_id', u).eq('app', a)
SelectRoles(u, a) ==
  {r.role : r \in {x \in UserRolesTable : x.user_id = u /\ x.app = a}}

\* Bookkeeping: how the query of the effect that ran last settled, the
\* roles held just before, and whether a cancelled query settled after it.
Unsettled == [kind |-> "none", data |-> {}, prev |-> {}, late |-> FALSE]

\* if (cancelled) return;
IsCancelled_Never(q) == FALSE
IsCancelled(q) == q.cancelled

\* the error branch: setRoles([])
RolesOnError_Keep(prev) == prev
RolesOnError(prev) == {}

\* the query branch: setLoading(true) and no setRoles
RolesOnQuery_Reset(prev) == {}
RolesOnQuery(prev) == prev

\* which branch of the effect body is taken
RoleEffectBranch_NoAdmin ==
  IF userId = NoUser \/ app = NoApp THEN "none" ELSE "query"
RoleEffectBranch ==
  IF useIsSuperAdmin THEN "admin"
  ELSE IF userId = NoUser \/ app = NoApp THEN "none"
  ELSE "query"

\* what useAppRole returns to the component
useAppRole ==
  IF useIsSuperAdmin
    THEN [roles |-> {"super_admin"}, loading |-> FALSE, all |-> TRUE]
    ELSE [roles |-> roles, loading |-> rolesLoading, all |-> FALSE]

hasRole(role) == useAppRole.all \/ role \in useAppRole.roles

\* RequireRole({role, app}) with useAppRole(app)
RequireRole(role) ==
  IF useAppRole.loading THEN "nothing"
  ELSE IF ~hasRole(role) THEN "fallback"
  ELSE "children"

\* -------------------------------------------------------- useSubscription
Plans == {"free", "pro"}
Statuses == {"active", "trialing", "canceled"}

NoRow == [user_id |-> NoUser, plan |-> "null", status |-> "null"]
\* the rows the subscriptions table may hold for user u (at most one at a time)
SubscriptionRows(u) ==
  {[user_id |-> u, plan |-> p, status |-> s] : p \in Plans, s \in Statuses}

NoError == "null"
\* .single(): exactly one row is the data; no row is the error PGRST116
single(rows) ==
  IF Cardinality(rows) = 1
    THEN [data |-> CHOOSE r \in rows : TRUE, error |-> NoError]
    ELSE [data |-> NoRow, error |-> "PGRST116"]

\* what the store answers a query for user u with: its row, no row, or a
\* transport failure
SubscriptionAnswers(u) ==
  {single({r}) : r \in SubscriptionRows(u)}
    \cup {single({})}
    \cup {[data |-> NoRow, error |-> "transport"]}

NoSubDeps == [userId |-> "unset"]
SubDepsNow == [userId |-> userId]

SubUnsettled == [kind |-> "none", data |-> NoRow, late |-> FALSE]

plan == IF subscription = NoRow THEN "free" ELSE subscription.plan
isActive_ActiveOnly == subscription # NoRow /\ subscription.status = "active"
isActive ==
  subscription # NoRow /\ subscription.status \in {"active", "trialing"}
isPro_BillingOnly == plan = "pro" /\ isActive
isPro == useIsSuperAdmin \/ (plan = "pro" /\ isActive)

useSubscription ==
  [plan |-> plan, isPro |-> isPro, isActive |-> isActive,
   subscription |-> subscription, loading |-> subLoading]

RequirePro_AlsoRoles ==
  IF useSubscription.loading \/ useAppRole.loading THEN "nothing"
  ELSE IF ~useSubscription.isPro THEN "fallback"
  ELSE "children"
RequirePro ==
  IF useSubscription.loading THEN "nothing"
  ELSE IF ~useSubscription.isPro THEN "fallback"
  ELSE "children"

\* ---------------------------------------------------------------- gates
RequireAuth_UserLoaded ==
  IF ~useUser.isLoaded THEN "nothing"
  ELSE IF ~useAuth.isSignedIn THEN "fallback"
  ELSE "children"
RequireAuth ==
  IF ~useAuth.isLoaded THEN "nothing"
  ELSE IF ~useAuth.isSignedIn THEN "fallback"
  ELSE "children"

\* ----------------------------------------------------- the auth context
\* const AuthContext = createContext<AuthContextType | null>(null):
\* useContext gives the provider's value below an AuthProvider, else null
NoContext == "null"
useContext(below) == IF below THEN "AuthContextType" ELSE NoContext

NotThrown == [threw |-> FALSE, message |-> ""]
useAuthContext_Default(ctx) == NotThrown
useAuthContext(ctx) ==
  IF ctx = NoContext
    THEN [threw |-> TRUE,
          message |-> "useAuth / useUser must be used inside <AuthProvider>"]
    ELSE NotThrown

\* the hooks and components that read the context, and the first hook each
\* one calls (before any useState of its own)
Hooks ==
  {"useAuth", "useUser", "useSupabase", "useIsSuperAdmin", "useAppRole",
   "useSubscription", "RequireAuth", "RequirePro", "RequireRole",
   "SignedIn", "SignedOut", "UserButton", "SignOutButton"}
FirstCall(h) ==
  CASE h \in {"useAuth", "useUser", "useSupabase"} -> "useAuthContext"
    [] h \in {"useIsSuperAdmin", "useAppRole", "useSubscription",
              "UserButton"} -> "useUser"
    [] h \in {"RequireAuth", "SignedIn", "SignedOut", "SignOutButton"} ->
         "useAuth"
    [] h = "RequirePro" -> "useSubscription"
    [] h = "RequireRole" -> "useAppRole"

\* evaluating h: an exception of the first call leaves h at once
RECURSIVE Evaluate(_, _)
Evaluate(h, below) ==
  IF h = "useAuthContext" THEN useAuthContext(useContext(below))
  ELSE Evaluate(FirstCall(h), below)

NotEvaluated ==
  [hook |-> "none", below |-> TRUE, threw |-> FALSE, message |-> ""]

\* ------------------------------------------------- the client singleton
NoClient == 0
ConfigValues == {Undefined, "set"}
MissingConfig ==
  "Missing VITE_SUPABASE_URL or VITE_SUPABASE_ANON_KEY environment variables"

\* getSupabase(): what the call returns (client, numbered by creation) or
\* throws, and whether it found _supabase already set
getSupabase_NoCache ==
  IF env.url = Undefined \/ env.key = Undefined
    THEN [threw |-> TRUE, message |-> MissingConfig, client |-> NoClient,
          hit |-> FALSE]
    ELSE [threw |-> FALSE, message |-> "", client |-> clientsCreated + 1,
          hit |-> FALSE]
getSupabase ==
  IF supabaseClient # NoClient
    THEN [threw |-> FALSE, message |-> "", client |-> supabaseClient,
          hit |-> TRUE]
  ELSE IF env.url = Undefined \/ env.key = Undefined
    THEN [threw |-> TRUE, message |-> MissingConfig, client |-> NoClient,
          hit |-> FALSE]
  ELSE [threw |-> FALSE, message |-> "", client |-> clientsCreated + 1,
        hit |-> FALSE]

NeverGot ==
  [called |-> FALSE, threw |-> FALSE, message |-> "", client |-> NoClient,
   hit |-> FALSE]

\* ------------------------------------------------------------ the forms
\* the error member of a provider reply: null or an AuthError, whose
\* message is never empty
NoAuthError == [message |-> "null"]
AuthErrors ==
  {[message |-> m] : m \in {"Invalid login credentials",
                            "Email rate limit exceeded"}}
Answers == [error : AuthErrors \cup {NoAuthError}]

\* const dest = afterSignInUrl || redirectUrl || '/dashboard'
dest(afterUrl, redirectUrl) ==
  IF afterUrl # Undefined THEN afterUrl
  ELSE IF redirectUrl # Undefined THEN redirectUrl
  ELSE "/dashboard"

\* forgotPassword: return { error: error?.message ?? null }
forgotPassword(answer) ==
  [error |-> IF answer.error = NoAuthError THEN NoError
             ELSE answer.error.message]

\* SignIn.handleSubmit / SignUp.handleSubmit after the await, on an error
SubmitFailed_StillLoading(form, err) == [form EXCEPT !.error = err.message]
SubmitFailed(form, err) ==
  [form EXCEPT !.error = err.message, !.loading = FALSE]

NoAnswer == [op |-> "none", form |-> "none", error |-> NoAuthError]
NotReturned == [returned |-> FALSE, error |-> NoError]
Call(op, form) == SetToBag({[op |-> op, form |-> form]})

\* `fallback = null` in a gate's parameters, and what a decision puts on
\* the page: <>{children}</>, <>{fallback}</> or null
FallbackOrDefault(fallback) == IF fallback = Undefined THEN "null" ELSE fallback
Rendered(decision, fallback) ==
  IF decision = "children" THEN "children"
  ELSE IF decision = "fallback" THEN FallbackOrDefault(fallback)
  ELSE "null"

SignedIn ==
  IF useAuth.isLoaded /\ useAuth.isSignedIn THEN "children" ELSE "nothing"

SignedOut_Unloaded ==
  IF ~useAuth.isSignedIn THEN "children" ELSE "nothing"
SignedOut ==
  IF useAuth.isLoaded /\ ~useAuth.isSignedIn THEN "children" ELSE "nothing"

\* ------------------------------------------------------------------- Init
InitProvider ==
  /\ providerSession \in Sessions \cup {NoSession}
  /\ fetch = [phase |-> "pending", s |-> NoSession]
  /\ session = NoSession
  /\ isLoaded = FALSE
  /\ authMounted = TRUE

InitEnv ==
  /\ hostname \in Hostnames
  /\ viteAppId \in EnvAppIds
  /\ currentApp = NotCalled

InitRole ==
  /\ appOverride = NoOverride
  /\ roles = {}
  /\ rolesLoading = TRUE
  /\ roleDeps = NoDeps
  /\ roleQueries = EmptyBag
  /\ roleSettled = Unsettled
  /\ roleMounted = TRUE

InitSub ==
  /\ subscription = NoRow
  /\ subLoading = TRUE
  /\ subDeps = NoSubDeps
  /\ subQueries = EmptyBag
  /\ subSettled = SubUnsettled
  /\ subMounted = TRUE

\* the first render of every gate
InitGates ==
  /\ gateOutputs = [auth |-> {RequireAuth}, pro |-> {RequirePro},
                    role |-> [r \in Roles |-> {RequireRole(r)}]]
  /\ evaluated = NotEvaluated
  /\ sessionObj = 0
  /\ keyLog = [issued |-> 0, replaced |-> FALSE, resolved |-> FALSE]

\* AuthProvider is mounted, so its render's getSupabase() has returned: the
\* configuration is present and _supabase holds the client
InitConfigured ==
  /\ env = [url |-> "set", key |-> "set"]
  /\ supabaseClient = 1
  /\ clientsCreated = 1
  /\ lastGet = [called |-> TRUE, threw |-> FALSE, message |-> "",
                client |-> 1, hit |-> FALSE]

InitForms ==
  /\ href = page
  /\ signIn = [error |-> "", loading |-> FALSE, view |-> "sign-in",
               forgotSent |-> FALSE]
  /\ signUp = [error |-> "", loading |-> FALSE, success |-> FALSE]
  /\ calls = EmptyBag
  /\ lastAnswer = NoAnswer
  /\ forgotResult = NotReturned

Init ==
  /\ InitProvider
  /\ InitEnv
  /\ InitRole
  /\ InitSub
  /\ signOutPc = "idle"
  /\ consoleErrors = <<>>
  /\ InitGates
  /\ InitConfigured
  /\ page = "/sign-in"
  /\ InitForms

\* --------------------------------------------------- AuthProvider actions
\* The provider answers getSession(): the promise's value is fixed here.
GetSessionRead ==
  /\ fetch.phase = "pending"
  /\ fetch' = [phase |-> "read", s |-> providerSession]
  /\ UNCHANGED <<providerSession, session, isLoaded, authMounted>>

\* .then(({data: {session: s}}) => { setSession(s); setIsLoaded(true) })
\* The callback has no guard of its own; React discards the state updates
\* of a component that has been unmounted.
GetSessionSettled ==
  /\ fetch.phase = "read"
  /\ fetch' = [phase |-> "settled", s |-> NoSession]
  /\ session' = IF authMounted THEN fetch.s ELSE session
  /\ isLoaded' = IF authMounted THEN TRUE ELSE isLoaded
  /\ UNCHANGED <<providerSession, authMounted>>

\* the effect's cleanup: return () => subscription.unsubscribe()
ListenerSubscribed_Always == TRUE
ListenerSubscribed == authMounted

\* The provider's session changes (sign-in, sign-out elsewhere, refresh) and
\* onAuthStateChange((_event, s) => setSession(s)) fires.
OnAuthStateChange(s) ==
  /\ providerSession' = s
  /\ session' = IF ListenerSubscribed THEN s ELSE session
  /\ UNCHANGED <<fetch, isLoaded, authMounted>>

\* AuthProvider unmounts: the effect's cleanup runs
AuthUnmount ==
  /\ authMounted
  /\ authMounted' = FALSE
  /\ UNCHANGED <<providerSession, fetch, session, isLoaded>>

\* -------------------------------------------------------- useAppRole steps
\* useEffect(() => {...}, [userId, app, isSuperAdmin, supabase])
RoleEffect ==
  /\ roleMounted
  /\ roleDeps # RoleDepsNow
  /\ roleDeps' = RoleDepsNow
  /\ roleSettled' = Unsettled
  /\ IF RoleEffectBranch = "admin" THEN
       /\ rolesLoading' = FALSE
       /\ roleQueries' = Cleanup(roleQueries)
       /\ UNCHANGED roles
     ELSE IF RoleEffectBranch = "none" THEN
       /\ roles' = {}
       /\ rolesLoading' = FALSE
       /\ roleQueries' = Cleanup(roleQueries)
     ELSE
       /\ BagCardinality(roleQueries) < MaxInFlight
       /\ rolesLoading' = TRUE
       /\ roleQueries' = Cleanup(roleQueries) (+)
            SetToBag({[user |-> userId, app |-> app, cancelled |-> FALSE]})
       /\ roles' = RolesOnQuery(roles)
  /\ UNCHANGED <<appOverride, roleMounted, consoleErrors>>

\* .then(({data, error}) => {...}) of the in-flight query q
RoleQuerySettled(q, kind) ==
  /\ BagIn(q, roleQueries)
  /\ roleQueries' = roleQueries (-) SetToBag({q})
  /\ LET data == IF kind = "rows" THEN SelectRoles(q.user, q.app) ELSE {}
     IN IF IsCancelled(q) THEN
          /\ roleSettled' = [roleSettled EXCEPT !.late = (roleSettled.kind # "none")]
          /\ UNCHANGED <<roles, rolesLoading, consoleErrors>>
        ELSE
          /\ IF kind = "error"
               THEN /\ Len(consoleErrors) < MaxLog
                    /\ consoleErrors' = Append(consoleErrors, "[useAppRole]")
                    /\ roles' = RolesOnError(roles)
               ELSE /\ roles' = data
                    /\ UNCHANGED consoleErrors
          /\ rolesLoading' = FALSE
          /\ roleSettled' = [kind |-> kind, data |-> data, prev |-> roles,
                             late |-> FALSE]
  /\ UNCHANGED <<appOverride, roleDeps, roleMounted>>

\* the parent re-renders the component with another app argument
ChangeApp(a) ==
  /\ roleMounted
  /\ a # appOverride
  /\ appOverride' = a
  /\ UNCHANGED <<roles, rolesLoading, roleDeps, roleQueries, roleSettled,
                 roleMounted, consoleErrors>>

\* the component using useAppRole unmounts: the effect's cleanup runs
RoleUnmount ==
  /\ roleMounted
  /\ roleMounted' = FALSE
  /\ roleQueries' = Cleanup(roleQueries)
  /\ UNCHANGED <<appOverride, roles, rolesLoading, roleDeps, roleSettled,
                 consoleErrors>>

\* ------------------------------------------------ the role specification
ProviderStep ==
  \/ GetSessionRead
  \/ GetSessionSettled
  \/ \E s \in Sessions \cup {NoSession} : OnAuthStateChange(s)

NextRole ==
  \/ ProviderStep /\ UNCHANGED <<envVars, roleVars, subVars, signOutPc, consoleErrors, otherVars>>
  \/ RoleEffect /\ UNCHANGED <<provVars, envVars, subVars, signOutPc, otherVars>>
  \/ \E q \in BagToSet(roleQueries), kind \in {"rows", "empty", "error"} :
       RoleQuerySettled(q, kind) /\ UNCHANGED <<provVars, envVars, subVars, signOutPc, otherVars>>
  \/ \E a \in AppOverrides \cup {NoOverride} : ChangeApp(a) /\ UNCHANGED <<provVars, envVars, subVars, signOutPc, otherVars>>
  \/ RoleUnmount /\ UNCHANGED <<provVars, envVars, subVars, signOutPc, otherVars>>

SpecRole == Init /\ [][NextRole]_vars

\* The promise of the in-flight query q is rejected: .then(onFulfilled) was
\* given no rejection handler, so no callback of the hook runs.
RoleQueryRejected(q) ==
  /\ BagIn(q, roleQueries)
  /\ roleQueries' = roleQueries (-) SetToBag({q})
  /\ roleSettled' =
       IF q.cancelled THEN roleSettled
       ELSE [kind |-> "rejected", data |-> {}, prev |-> roles, late |-> FALSE]
  /\ UNCHANGED <<appOverride, roles, rolesLoading, roleDeps, roleMounted,
                 consoleErrors>>

\* the role hook on myrestoevent.com with a store whose promise may reject
NextRoleRejecting ==
  \/ ProviderStep /\ UNCHANGED <<envVars, roleVars, subVars, signOutPc, consoleErrors, otherVars>>
  \/ RoleEffect /\ UNCHANGED <<provVars, envVars, subVars, signOutPc, otherVars>>
  \/ \E q \in BagToSet(roleQueries), kind \in {"rows", "empty", "error"} :
       RoleQuerySettled(q, kind) /\ UNCHANGED <<provVars, envVars, subVars, signOutPc, otherVars>>
  \/ \E q \in BagToSet(roleQueries) :
       RoleQueryRejected(q) /\ UNCHANGED <<provVars, envVars, subVars, signOutPc, otherVars>>

InitRoleRejecting ==
  /\ Init
  /\ hostname = "myrestoevent.com"
SpecRoleRejecting == InitRoleRejecting /\ [][NextRoleRejecting]_vars

\* --------------------------------------------------- useSubscription steps
\* useEffect(() => {...}, [userId, supabase])
SubEffect ==
  /\ subMounted
  /\ subDeps # SubDepsNow
  /\ subDeps' = SubDepsNow
  /\ subSettled' = SubUnsettled
  /\ IF userId = NoUser THEN
       /\ subscription' = NoRow
       /\ subLoading' = FALSE
       /\ subQueries' = Cleanup(subQueries)
     ELSE
       /\ BagCardinality(subQueries) < MaxInFlight
       /\ subLoading' = TRUE
       /\ subQueries' = Cleanup(subQueries) (+)
            SetToBag({[user |-> userId, cancelled |-> FALSE]})
       /\ UNCHANGED subscription
  /\ UNCHANGED <<subMounted, consoleErrors>>

\* .then(({data, error}) => {...}) of the in-flight query q, answered with ans
SubQuerySettled(q, ans) ==
  /\ BagIn(q, subQueries)
  /\ subQueries' = subQueries (-) SetToBag({q})
  /\ IF IsCancelled(q) THEN
       /\ subSettled' = [subSettled EXCEPT !.late = (subSettled.kind # "none")]
       /\ UNCHANGED <<subscription, subLoading, consoleErrors>>
     ELSE
       /\ IF ans.error # NoError
            THEN /\ Len(consoleErrors) < MaxLog
                 /\ consoleErrors' = Append(consoleErrors, "[useSubscription]")
                 /\ subscription' = NoRow
            ELSE /\ subscription' = ans.data
                 /\ UNCHANGED consoleErrors
       /\ subLoading' = FALSE
       /\ subSettled' =
            [kind |-> IF ans.error = NoError THEN "row"
                      ELSE IF ans.error = "PGRST116" THEN "notfound"
                      ELSE "transport",
             data |-> ans.data, late |-> FALSE]
  /\ UNCHANGED <<subDeps, subMounted>>

\* the component using useSubscription unmounts: the effect's cleanup runs
SubUnmount ==
  /\ subMounted
  /\ subMounted' = FALSE
  /\ subQueries' = Cleanup(subQueries)
  /\ UNCHANGED <<subscription, subLoading, subDeps, subSettled, consoleErrors>>

\* ---------------------------------------- the subscription specification
NextSub ==
  \/ ProviderStep /\ UNCHANGED <<envVars, roleVars, subVars, signOutPc, consoleErrors, otherVars>>
  \/ SubEffect /\ UNCHANGED <<provVars, envVars, roleVars, signOutPc, otherVars>>
  \/ \E q \in BagToSet(subQueries) : \E ans \in SubscriptionAnswers(q.user) :
       SubQuerySettled(q, ans) /\ UNCHANGED <<provVars, envVars, roleVars, signOutPc, otherVars>>
  \/ SubUnmount /\ UNCHANGED <<provVars, envVars, roleVars, signOutPc, otherVars>>

\* useSubscription does not read the app: one hostname is enough here
InitSubSpec == Init /\ hostname = "localhost"
SpecSub == InitSubSpec /\ [][NextSub]_vars

\* ---------------------------------------------------------------- signOut
\* const signOut = useCallback(async () => { await supabase.auth.signOut() })
SignOutCalled ==
  /\ authMounted
  /\ signOutPc = "idle"
  /\ signOutPc' = "called"
  /\ UNCHANGED provVars

\* supabase.auth.signOut() settles.  With no error the provider has removed
\* its session and notified the listeners (SIGNED_OUT, null) first; with an
\* error it returns {error} and keeps the session.  Either way the awaiting
\* signOut() resolves: the returned {error} is not looked at.
SignOutResolved(result) ==
  /\ signOutPc = "called"
  /\ signOutPc' = "resolved"
  /\ IF result = "ok"
       THEN /\ providerSession' = NoSession
            /\ session' = IF ListenerSubscribed THEN NoSession ELSE session
       ELSE UNCHANGED <<providerSession, session>>
  /\ UNCHANGED <<fetch, isLoaded, authMounted>>

\* the code after `await signOut()`: UserButton sets window.location.href
AfterSignOut ==
  /\ signOutPc = "resolved"
  /\ signOutPc' = "idle"
  /\ UNCHANGED provVars

\* React evaluates hook or component h, below the AuthProvider or in a tree
\* that has none
Evaluated(h, below) ==
  /\ below => authMounted
  /\ LET result == Evaluate(h, below)
     IN evaluated' = [hook |-> h, below |-> below, threw |-> result.threw,
                      message |-> result.message]
  /\ UNCHANGED <<provVars, envVars, roleVars, subVars, signOutPc,
                 consoleErrors, gateOutputs, clientVars, formVars,
                 refreshVars>>

\* ------------------------------------------------ the auth specification
\* The continuation of `await signOut()` runs in the same turn as the
\* resolution, so no other callback runs between the two.
NextAuth ==
  \/ signOutPc # "resolved" /\ ProviderStep /\ UNCHANGED signOutPc
        /\ UNCHANGED <<envVars, roleVars, subVars, consoleErrors, otherVars>>
  \/ SignOutCalled /\ UNCHANGED <<envVars, roleVars, subVars, consoleErrors, otherVars>>
  \/ \E result \in {"ok", "error"} :
       SignOutResolved(result) /\ UNCHANGED <<envVars, roleVars, subVars, consoleErrors, otherVars>>
  \/ AfterSignOut /\ UNCHANGED <<envVars, roleVars, subVars, consoleErrors, otherVars>>
  \/ \E h \in Hooks, below \in BOOLEAN : signOutPc # "resolved" /\ Evaluated(h, below)
  \/ signOutPc # "resolved" /\ AuthUnmount /\ UNCHANGED signOutPc
        /\ UNCHANGED <<envVars, roleVars, subVars, consoleErrors, otherVars>>

SpecAuth == Init /\ [][NextAuth]_vars

\* ------------------------------------------------------- client steps
\* one call of getSupabase()
GetSupabaseCalled ==
  /\ getSupabase.client <= MaxClients
  /\ lastGet' = [called |-> TRUE, threw |-> getSupabase.threw,
                  message |-> getSupabase.message,
                  client |-> getSupabase.client, hit |-> getSupabase.hit]
  /\ IF getSupabase.threw
       THEN UNCHANGED <<supabaseClient, clientsCreated>>
       ELSE /\ supabaseClient' = getSupabase.client
            /\ clientsCreated' =
                 IF getSupabase.hit THEN clientsCreated ELSE clientsCreated + 1
  /\ UNCHANGED env

\* a handler calls getSupabase() and then the provider operation op; the
\* exception of getSupabase() leaves the handler before the call
CallProvider(op, form) ==
  /\ BagCardinality(calls) < MaxCalls
  /\ GetSupabaseCalled
  /\ calls' = IF getSupabase.threw THEN calls ELSE calls (+) Call(op, form)
  /\ lastAnswer' = NoAnswer

\* AuthProvider renders: const supabase = getSupabase()
AuthProviderRender ==
  /\ GetSupabaseCalled
  /\ authMounted' = (authMounted \/ ~getSupabase.threw)
  /\ UNCHANGED <<providerSession, fetch, session, isLoaded>>
  /\ UNCHANGED formVars

\* SignIn: the form is submitted (its button is disabled while loading)
SignInSubmit ==
  /\ page = "/sign-in" /\ href = page
  /\ signIn.view = "sign-in"
  /\ ~signIn.loading
  /\ signIn' = [signIn EXCEPT !.loading = TRUE, !.error = ""]
  /\ CallProvider("signInWithPassword", "SignIn")
  /\ UNCHANGED <<page, href, signUp, forgotResult>>

\* SignIn: "Continue with Google"
SignInOAuth ==
  /\ page = "/sign-in" /\ href = page
  /\ signIn.view = "sign-in"
  /\ CallProvider("signInWithOAuth", "SignIn")
  /\ UNCHANGED <<page, href, signIn, signUp, forgotResult>>

\* SignIn: "Forgot password?" and "Back to sign in"
ShowForgot ==
  /\ page = "/sign-in" /\ href = page
  /\ signIn.view = "sign-in"
  /\ signIn' = [signIn EXCEPT !.view = "forgot", !.error = ""]
  /\ UNCHANGED <<clientVars, page, href, signUp, calls, lastAnswer,
                 forgotResult>>
BackToSignIn ==
  /\ page = "/sign-in" /\ href = page
  /\ signIn.view = "forgot"
  /\ signIn' = [signIn EXCEPT !.view = "sign-in", !.error = "",
                              !.forgotSent = FALSE]
  /\ UNCHANGED <<clientVars, page, href, signUp, calls, lastAnswer,
                 forgotResult>>

\* SignIn: the forgot form is submitted; forgotPassword(email) is called
ForgotSubmit ==
  /\ page = "/sign-in" /\ href = page
  /\ signIn.view = "forgot"
  /\ ~signIn.forgotSent
  /\ ~signIn.loading
  /\ signIn' = [signIn EXCEPT !.loading = TRUE, !.error = ""]
  /\ CallProvider("resetPasswordForEmail", "SignIn")
  /\ UNCHANGED <<page, href, signUp, forgotResult>>

\* SignUp: the form is submitted, and "Continue with Google"
SignUpSubmit ==
  /\ page = "/sign-up" /\ href = page
  /\ ~signUp.success
  /\ ~signUp.loading
  /\ signUp' = [signUp EXCEPT !.loading = TRUE, !.error = ""]
  /\ CallProvider("signUp", "SignUp")
  /\ UNCHANGED <<page, href, signIn, forgotResult>>
SignUpOAuth ==
  /\ page = "/sign-up" /\ href = page
  /\ ~signUp.success
  /\ CallProvider("signInWithOAuth", "SignUp")
  /\ UNCHANGED <<page, href, signIn, signUp, forgotResult>>

\* the provider call c settles with answer and the handler goes on after
\* its await (a page that has been left runs no callback)
CallSettled(c, answer) ==
  /\ href = page
  /\ BagIn(c, calls)
  /\ calls' = calls (-) Call(c.op, c.form)
  /\ lastAnswer' = [op |-> c.op, form |-> c.form, error |-> answer.error]
  /\ CASE c.op = "signInWithPassword" ->
            \* if (err) { setError(err.message); setLoading(false); return }
            \* window.location.href = dest
            /\ IF answer.error # NoAuthError
                 THEN /\ signIn' = SubmitFailed(signIn, answer.error)
                      /\ UNCHANGED href
                 ELSE /\ href' = dest(Undefined, Undefined)
                      /\ UNCHANGED signIn
            /\ UNCHANGED <<signUp, forgotResult>>
       [] c.op = "signUp" ->
            \* if (err) {...; return }  setSuccess(true); setLoading(false)
            /\ signUp' = IF answer.error # NoAuthError
                           THEN SubmitFailed(signUp, answer.error)
                           ELSE [signUp EXCEPT !.success = TRUE,
                                                !.loading = FALSE]
            /\ UNCHANGED <<signIn, href, forgotResult>>
       [] c.op = "resetPasswordForEmail" ->
            \* const { error: err } = await forgotPassword(email)
            /\ forgotResult' = [returned |-> TRUE,
                                 error |-> forgotPassword(answer).error]
            /\ signIn' = IF forgotPassword(answer).error # NoError
                           THEN [signIn EXCEPT
                                   !.error = forgotPassword(answer).error,
                                   !.loading = FALSE]
                           ELSE [signIn EXCEPT !.forgotSent = TRUE,
                                               !.loading = FALSE]
            /\ UNCHANGED <<signUp, href>>
       [] c.op = "signInWithOAuth" ->
            \* await supabase.auth.signInWithOAuth(...): the reply is not
            \* read; with no error the provider has sent the browser away
            /\ href' = IF answer.error = NoAuthError THEN "oauth" ELSE href
            /\ UNCHANGED <<signIn, signUp, forgotResult>>
  /\ UNCHANGED <<clientVars, page>>

HookVars == <<envVars, roleVars, subVars, signOutPc, consoleErrors,
              gateOutputs, evaluated, refreshVars>>

NextClient ==
  \/ AuthProviderRender /\ UNCHANGED HookVars
  \/ SignInSubmit /\ UNCHANGED <<provVars, HookVars>>
  \/ SignInOAuth /\ UNCHANGED <<provVars, HookVars>>
  \/ ShowForgot /\ UNCHANGED <<provVars, HookVars>>
  \/ BackToSignIn /\ UNCHANGED <<provVars, HookVars>>
  \/ ForgotSubmit /\ UNCHANGED <<provVars, HookVars>>
  \/ SignUpSubmit /\ UNCHANGED <<provVars, HookVars>>
  \/ SignUpOAuth /\ UNCHANGED <<provVars, HookVars>>
  \/ \E c \in BagToSet(calls), answer \in Answers :
       CallSettled(c, answer) /\ UNCHANGED <<provVars, HookVars>>

\* the page has loaded and nothing has rendered yet: no AuthProvider is
\* mounted, _supabase is null, and the build has the configuration or not
InitClient ==
  /\ providerSession = NoSession
  /\ fetch = [phase |-> "pending", s |-> NoSession]
  /\ session = NoSession
  /\ isLoaded = FALSE
  /\ authMounted = FALSE
  /\ InitEnv
  /\ hostname = "localhost"
  /\ InitRole
  /\ InitSub
  /\ signOutPc = "idle"
  /\ consoleErrors = <<>>
  /\ InitGates
  /\ env \in [url : ConfigValues, key : ConfigValues]
  /\ supabaseClient = NoClient
  /\ clientsCreated = 0
  /\ lastGet = NeverGot
  /\ page \in {"/sign-in", "/sign-up"}
  /\ InitForms
SpecClient == InitClient /\ [][NextClient]_vars

\* ------------------------------------------- the gates' output sequence
\* The three gates are rendered below one AuthProvider from its mount on,
\* with the same props throughout; every commit of a state change renders
\* them again, and gateOutputs collects what each one has returned.
Rerender ==
  gateOutputs' =
    [auth |-> gateOutputs.auth \cup {RequireAuth'},
     pro  |-> gateOutputs.pro \cup {RequirePro'},
     role |-> [r \in Roles |-> gateOutputs.role[r] \cup {RequireRole(r)'}]]

\* The provider's session stays what it was at mount (its INITIAL_SESSION
\* notification carries that same session) and every query is answered
\* from the same tables.
NextGates ==
  \/ GetSessionRead
       /\ UNCHANGED <<envVars, roleVars, subVars, signOutPc, consoleErrors, evaluated, clientVars, formVars, refreshVars>> /\ Rerender
  \/ GetSessionSettled
       /\ UNCHANGED <<envVars, roleVars, subVars, signOutPc, consoleErrors, evaluated, clientVars, formVars, refreshVars>> /\ Rerender
  \/ OnAuthStateChange(providerSession)
       /\ UNCHANGED <<envVars, roleVars, subVars, signOutPc, consoleErrors, evaluated, clientVars, formVars, refreshVars>> /\ Rerender
  \/ RoleEffect
       /\ UNCHANGED <<provVars, envVars, subVars, signOutPc, evaluated, clientVars, formVars, refreshVars>> /\ Rerender
  \/ \E q \in BagToSet(roleQueries) :
       RoleQuerySettled(q, IF SelectRoles(q.user, q.app) = {} THEN "empty"
                                                              ELSE "rows")
         /\ UNCHANGED <<provVars, envVars, subVars, signOutPc, evaluated, clientVars, formVars, refreshVars>> /\ Rerender
  \/ SubEffect
       /\ UNCHANGED <<provVars, envVars, roleVars, signOutPc, evaluated, clientVars, formVars, refreshVars>> /\ Rerender
  \/ \E q \in BagToSet(subQueries) :
       \E ans \in {a \in SubscriptionAnswers(q.user) :
                      a.error \in {NoError, "PGRST116"}} :
         SubQuerySettled(q, ans)
           /\ UNCHANGED <<provVars, envVars, roleVars, signOutPc, evaluated, clientVars, formVars, refreshVars>> /\ Rerender

SpecGates == Init /\ [][NextGates]_vars

\* --------------------------------------------------- teardown of the hooks
\* Both hooks are mounted below one AuthProvider whose session stays what it
\* was at mount; either component may unmount at any time, also while its
\* query is in flight, and the query settles afterwards in any way.
NextTeardown ==
  \/ GetSessionRead
       /\ UNCHANGED <<envVars, roleVars, subVars, signOutPc, consoleErrors, otherVars>>
  \/ GetSessionSettled
       /\ UNCHANGED <<envVars, roleVars, subVars, signOutPc, consoleErrors, otherVars>>
  \/ OnAuthStateChange(providerSession)
       /\ UNCHANGED <<envVars, roleVars, subVars, signOutPc, consoleErrors, otherVars>>
  \/ RoleEffect /\ UNCHANGED <<provVars, envVars, subVars, signOutPc, otherVars>>
  \/ \E q \in BagToSet(roleQueries), kind \in {"rows", "empty", "error"} :
       RoleQuerySettled(q, kind)
         /\ UNCHANGED <<provVars, envVars, subVars, signOutPc, otherVars>>
  \/ RoleUnmount /\ UNCHANGED <<provVars, envVars, subVars, signOutPc, otherVars>>
  \/ SubEffect /\ UNCHANGED <<provVars, envVars, roleVars, signOutPc, otherVars>>
  \/ \E q \in BagToSet(subQueries) : \E ans \in SubscriptionAnswers(q.user) :
       SubQuerySettled(q, ans)
         /\ UNCHANGED <<provVars, envVars, roleVars, signOutPc, otherVars>>
  \/ SubUnmount /\ UNCHANGED <<provVars, envVars, roleVars, signOutPc, otherVars>>

SpecTeardown == Init /\ [][NextTeardown]_vars

\* ------------------------------------------------- the app of the page
\* a call of getCurrentApp() on any page of any build
CallGetCurrentApp ==
  /\ currentApp' = getCurrentApp
  /\ UNCHANGED <<hostname, viteAppId>>

NextApp ==
  CallGetCurrentApp
    /\ UNCHANGED <<provVars, roleVars, subVars, signOutPc, consoleErrors, otherVars>>

InitApp ==
  /\ providerSession = NoSession
  /\ InitProvider
  /\ hostname \in AllHostnames
  /\ viteAppId \in AllEnvAppIds
  /\ currentApp = NotCalled
  /\ InitRole
  /\ InitSub
  /\ signOutPc = "idle"
  /\ consoleErrors = <<>>
  /\ InitGates
  /\ InitConfigured
  /\ page = "/sign-in"
  /\ InitForms
SpecApp == InitApp /\ [][NextApp]_vars

\* ------------------------------------------- role queries per key change
\* useAppRole on myrestoevent.com below an AuthProvider whose every
\* notification delivers a new Session object, for the same user (token
\* refresh, repeated notification) or for another one.  keyLog is reset by
\* every step that changes the (user id, app) pair.
PairNow == <<userId, app>>
KeyLogged(issue, settle, replace) ==
  keyLog' =
    IF PairNow' # PairNow
      THEN [issued |-> 0, replaced |-> FALSE, resolved |-> FALSE]
      ELSE [issued |-> IF issue THEN keyLog.issued + 1 ELSE keyLog.issued,
            replaced |-> keyLog.replaced \/ replace,
            resolved |-> keyLog.resolved \/ settle]
\* setSession(s) with the Session object of this notification
NewSessionObject == sessionObj' = 1 - sessionObj

RefreshFrame == <<gateOutputs, evaluated, clientVars, formVars>>
\* React flushes the effects of a committed render before it renders the
\* next update
EffectsFlushed == roleDeps = RoleDepsNow

NextRefresh ==
  \/ GetSessionRead
       /\ UNCHANGED <<envVars, roleVars, subVars, signOutPc, consoleErrors, RefreshFrame>>
       /\ UNCHANGED sessionObj /\ KeyLogged(FALSE, FALSE, FALSE)
  \/ GetSessionSettled
       /\ EffectsFlushed
       /\ UNCHANGED <<envVars, roleVars, subVars, signOutPc, consoleErrors, RefreshFrame>>
       /\ NewSessionObject /\ KeyLogged(FALSE, FALSE, TRUE)
  \/ \E s \in Sessions \cup {NoSession} :
       OnAuthStateChange(s)
         /\ EffectsFlushed
         /\ UNCHANGED <<envVars, roleVars, subVars, signOutPc, consoleErrors, RefreshFrame>>
         /\ NewSessionObject /\ KeyLogged(FALSE, FALSE, TRUE)
  \/ RoleEffect
       /\ (RoleEffectBranch = "query" => keyLog.issued < MaxIssued)
       /\ UNCHANGED <<provVars, envVars, subVars, signOutPc, RefreshFrame>>
       /\ UNCHANGED sessionObj
       /\ KeyLogged(RoleEffectBranch = "query", FALSE, FALSE)
  \/ \E q \in BagToSet(roleQueries), kind \in {"rows", "empty"} :
       RoleQuerySettled(q, kind)
         /\ UNCHANGED <<provVars, envVars, subVars, signOutPc, RefreshFrame>>
         /\ UNCHANGED sessionObj
         /\ KeyLogged(FALSE, ~q.cancelled /\ <<q.user, q.app>> = PairNow, FALSE)
  \/ \E a \in AppOverrides \cup {NoOverride} :
       ChangeApp(a)
         /\ EffectsFlushed
         /\ UNCHANGED <<provVars, envVars, subVars, signOutPc, RefreshFrame>>
         /\ UNCHANGED sessionObj /\ KeyLogged(FALSE, FALSE, FALSE)

InitRefresh ==
  /\ Init
  /\ hostname = "myrestoevent.com"
SpecRefresh == InitRefresh /\ [][NextRefresh]_vars

Logged(tag) == \E i \in 1..Len(consoleErrors) : consoleErrors[i] = tag

LiveQueries(qs) == {q \in BagToSet(qs) : ~q.cancelled}
\* a step in which a cancelled query settles
StaleSettle(qs, qsNext) ==
  /\ BagCardinality(qsNext) < BagCardinality(qs)
  /\ LiveQueries(qsNext) = LiveQueries(qs)

\* C1 -- stale discard for roles.  Once the effect has been re-run for a new
\* (user, app) and so has cancelled query A, the settlement of A changes
\* neither roles nor loading; and while the key is the one the effect last
\* ran for, a settled query B leaves roles equal to B's result (the rows of
\* the table for the current user and app, or empty on error) with loading
\* false, whatever the order of the two settlements.
C1_Final ==
  (roleDeps = RoleDepsNow /\ roleSettled.kind # "none") =>
    /\ roles = (IF roleSettled.kind = "rows" THEN SelectRoles(userId, app) ELSE {})
    /\ ~rolesLoading
C1_Step ==
  StaleSettle(roleQueries, roleQueries') => UNCHANGED <<roles, rolesLoading>>
C1_StaleDiscardRoles == []C1_Final /\ [][C1_Step]_vars
\* B has settled with rows and the cancelled A settled after it
C1_Witness ==
  /\ roleDeps = RoleDepsNow
  /\ roleSettled.kind = "rows"
  /\ roleSettled.late
  /\ roles = SelectRoles(userId, app)
  /\ roles # {}

\* C2 -- stale discard for subscriptions.  The settlement of a cancelled
\* subscription query changes neither subscription nor loading; and while
\* the user is the one the effect last ran for, a settled query leaves
\* subscription equal to its answer, a row of the current user or null.
C2_Final ==
  (subDeps = SubDepsNow /\ subSettled.kind # "none") =>
    /\ subscription = subSettled.data
    /\ subscription # NoRow => subscription.user_id = userId
    /\ useSubscription.plan = (IF subscription = NoRow THEN "free" ELSE subSettled.data.plan)
    /\ ~subLoading
C2_Step ==
  StaleSettle(subQueries, subQueries') => UNCHANGED <<subscription, subLoading>>
C2_StaleDiscardSubscription == []C2_Final /\ [][C2_Step]_vars
C2_Witness ==
  /\ subDeps = SubDepsNow
  /\ subSettled.kind = "row"
  /\ subSettled.late
  /\ subscription.user_id = userId

\* C3 -- admin short-circuit.  Whenever the session's claim role is
\* super_admin, useAppRole returns roles = {super_admin} and loading =
\* false and hasRole(r) holds for every r, whatever the roles and loading
\* state hold; and no user_roles query is ever in flight for such a user.
AdminIds == {s.id : s \in {x \in Sessions : x.role = "super_admin"}}
C3_AdminShortCircuit ==
  /\ useIsSuperAdmin =>
       /\ useAppRole.roles = {"super_admin"}
       /\ ~useAppRole.loading
       /\ \A r \in Roles \cup {"super_admin", "anything"} : hasRole(r)
  /\ \A q \in BagToSet(roleQueries) : q.user \notin AdminIds
\* first render with the admin, before the effect has run, on top of the
\* roles and the loading flag of an earlier user
C3_Witness ==
  /\ useIsSuperAdmin
  /\ roleDeps # RoleDepsNow
  /\ roles # {}
  /\ rolesLoading

\* C4 -- fail-closed roles.  For a signed-in user without the privileged
\* claim and without a row in user_roles for the current app, hasRole(r) is
\* false for every r in every state (stated for the renders in which the
\* app is the one the effect last ran for, so that only the user can have
\* changed).
C4_FailClosedRoles ==
  (roleMounted /\ userId # NoUser /\ ~useIsSuperAdmin
     /\ roleDeps.app = app
     /\ SelectRoles(userId, app) = {}) =>
    \A r \in Roles : ~hasRole(r)

\* C5 -- application scoping.  A role the user holds in another app only
\* never makes hasRole(role) true, nor RequireRole render its children, in
\* the current app (stated for the renders in which the user is the one the
\* effect last ran for, so that only the app can have changed).
C5_ApplicationScoping ==
  \A r \in Roles :
    (roleMounted /\ userId # NoUser /\ ~useIsSuperAdmin
       /\ roleDeps.userId = userId
       /\ r \notin SelectRoles(userId, app)
       /\ \E a \in Apps : r \in SelectRoles(userId, a)) =>
      (~hasRole(r) /\ RequireRole(r) # "children")

\* C6 -- pro precedence.  Whenever the session carries the super_admin
\* claim, useSubscription reports isPro = true, whatever the subscription
\* state and the loading flag hold.
C6_ProPrecedence == useIsSuperAdmin => useSubscription.isPro
\* the admin's own row has settled with status canceled
C6_Witness ==
  /\ useIsSuperAdmin
  /\ subDeps = SubDepsNow
  /\ subSettled.kind = "row"
  /\ subscription.status = "canceled"

\* C7 -- entitlement derivation.  For a user without the privileged claim
\* whose query settled with a row, isActive is true exactly when the row's
\* status is active or trialing, and isPro exactly when moreover the row's
\* plan is pro.
C7_EntitlementDerivation ==
  (subDeps = SubDepsNow /\ ~useIsSuperAdmin /\ subSettled.kind = "row") =>
    LET row == subSettled.data IN
    /\ useSubscription.isActive <=> row.status \in {"active", "trialing"}
    /\ useSubscription.isPro <=>
         (row.plan = "pro" /\ row.status \in {"active", "trialing"})
C7_Witness ==
  /\ subDeps = SubDepsNow
  /\ ~useIsSuperAdmin
  /\ subSettled.kind = "row"
  /\ subSettled.data.plan = "pro"
  /\ subSettled.data.status = "trialing"
  /\ useSubscription.isPro

\* C8 -- not-found versus error.  The settlement of the current query with
\* "no row" leaves plan = free and loading = false and logs nothing; its
\* settlement with a transport failure leaves plan = free, subscription =
\* null and loading = false and logs one error.
C8_Step ==
  /\ (subSettled.kind = "none" /\ subSettled'.kind = "notfound") =>
       /\ useSubscription'.plan = "free"
       /\ ~useSubscription'.loading
       /\ consoleErrors' = consoleErrors
  /\ (subSettled.kind = "none" /\ subSettled'.kind = "transport") =>
       /\ useSubscription'.plan = "free"
       /\ useSubscription'.subscription = NoRow
       /\ ~useSubscription'.loading
       /\ consoleErrors' = Append(consoleErrors, "[useSubscription]")
C8_NotFoundVersusError == [][C8_Step]_vars

\* C9 -- sign-out ordering.  Once signOut() has resolved, isSignedIn read
\* through useAuth, useUser or SignedIn is false, whatever the provider's
\* sign-out call returned.
C9_SignOutOrdering ==
  signOutPc = "resolved" =>
    /\ ~useAuth.isSignedIn
    /\ ~useUser.isSignedIn
    /\ SignedIn = "nothing"

\* C10 -- role query error fails closed.  After the query of the current
\* (user, app) settled with an error, and until the key changes, the error
\* is in the log, roles is empty, loading is false and hasRole(r) is false
\* for every r.
C10_RoleErrorFailsClosed ==
  (roleDeps = RoleDepsNow /\ roleSettled.kind = "error") =>
    /\ Logged("[useAppRole]")
    /\ roles = {}
    /\ ~rolesLoading
    /\ \A r \in Roles \cup {"super_admin"} : ~hasRole(r)
\* the error dropped roles that were held when it arrived
C10_Witness ==
  /\ roleDeps = RoleDepsNow
  /\ roleSettled.kind = "error"
  /\ roleSettled.prev # {}
  /\ roles = {}

\* C11 -- safe defaults without identity.  Whenever the user is null, or
\* the app cannot be determined, useAppRole reports roles = {} and loading
\* = false (stated for the renders after the effect has run at least once,
\* which leaves out the initial loading = true of the mount).
C11_SafeDefaults ==
  (roleMounted /\ roleDeps # NoDeps /\ ~useIsSuperAdmin
     /\ (userId = NoUser \/ app = NoApp)) =>
    /\ useAppRole.roles = {}
    /\ ~useAppRole.loading

\* C12 -- RequireAuth decision.  RequireAuth renders nothing while isLoaded
\* is false, also when a session is already set; once isLoaded, it renders
\* the children with a session and the fallback without one, and the
\* fallback is empty when none was supplied.
C12_RequireAuthDecision ==
  \A fb \in {Undefined, "fallbackNode"} :
    Rendered(RequireAuth, fb) =
      IF ~isLoaded THEN "null"
      ELSE IF session # NoSession THEN "children"
      ELSE IF fb = Undefined THEN "null" ELSE "fallbackNode"
\* a change notification has set the session before getSession() settled
C12_Witness ==
  /\ session # NoSession
  /\ ~isLoaded
  /\ RequireAuth = "nothing"

\* C13 -- RequirePro decision.  RequirePro renders nothing while the
\* subscription is loading, else the children exactly when the session is
\* privileged or the row held is pro and active/trialing, else the fallback;
\* the loading flag of useAppRole plays no part.
C13_RequireProDecision ==
  RequirePro =
    IF subLoading THEN "nothing"
    ELSE IF session.role = "super_admin"
            \/ (subscription.plan = "pro"
                  /\ subscription.status \in {"active", "trialing"})
      THEN "children"
    ELSE "fallback"
\* the children are rendered on a settled pro row while roles are loading
C13_Witness ==
  /\ RequirePro = "children"
  /\ ~useIsSuperAdmin
  /\ subDeps = SubDepsNow
  /\ subSettled.kind = "row"
  /\ rolesLoading

\* C14 -- RequireRole decision.  RequireRole(role, app) renders nothing
\* while roles are loading, else the children exactly when hasRole(role),
\* else the fallback; the query behind it is filtered by the app it was
\* given (the override when supplied, else the current app) and by the
\* current user; the loading flag of useSubscription plays no part.
C14_RequireRoleDecision ==
  /\ \A r \in Roles :
       RequireRole(r) =
         IF session.role = "super_admin" THEN "children"
         ELSE IF rolesLoading THEN "nothing"
         ELSE IF r \in roles THEN "children"
         ELSE "fallback"
  /\ roleDeps = RoleDepsNow =>
       \A q \in LiveQueries(roleQueries) :
         /\ q.user = session.id
         /\ q.app = (IF appOverride # NoOverride THEN appOverride
                                                 ELSE getCurrentApp)
\* on myrestoevent.com with the override 'garage', u2's garage role holds
C14_Witness ==
  /\ appOverride = "garage"
  /\ getCurrentApp = "event"
  /\ roleDeps = RoleDepsNow
  /\ roleSettled.kind = "rows"
  /\ RequireRole("owner") = "children"
  /\ RequireRole("editor") = "fallback"
  /\ subLoading

\* C15 -- no flash.  While the provider's session and the tables stay the
\* same, no gate renders its fallback at one time and its children at
\* another: "nothing" is the only output that precedes the final decision.
C15_NoFlash ==
  /\ ~({"fallback", "children"} \subseteq gateOutputs.auth)
  /\ ~({"fallback", "children"} \subseteq gateOutputs.pro)
  /\ \A r \in Roles : ~({"fallback", "children"} \subseteq gateOutputs.role[r])

\* C16 -- missing context is fatal.  A hook or component that reads the
\* auth context and is evaluated with no AuthProvider above it throws the
\* "must be used inside <AuthProvider>" error, returns no projection, and
\* the evaluation changes no state.
C16_Thrown ==
  (evaluated.hook # "none" /\ ~evaluated.below) =>
    /\ evaluated.threw
    /\ evaluated.message = "useAuth / useUser must be used inside <AuthProvider>"
C16_Step ==
  (evaluated' # evaluated /\ ~evaluated'.below) =>
    UNCHANGED <<provVars, envVars, roleVars, subVars, signOutPc, consoleErrors>>
C16_MissingContextFatal == []C16_Thrown /\ [][C16_Step]_vars
\* RequireRole, three calls away from useAuthContext, has thrown
C16_Witness ==
  /\ evaluated.hook = "RequireRole"
  /\ ~evaluated.below
  /\ evaluated.threw

\* C17 -- configuration error is fatal.  With the URL or the key absent
\* every getSupabase() throws the missing-variables error and no client is
\* created or cached; with both present no call throws, one client is
\* created, and once it is cached every later call returns that instance.
C17_Absent ==
  (env.url = Undefined \/ env.key = Undefined) =>
    /\ supabaseClient = NoClient
    /\ clientsCreated = 0
    /\ lastGet.called => (lastGet.threw /\ lastGet.message = MissingConfig)
C17_Present ==
  (env.url # Undefined /\ env.key # Undefined /\ lastGet.called) =>
    /\ ~lastGet.threw
    /\ supabaseClient # NoClient
    /\ lastGet.client = supabaseClient
C17_Step ==
  (supabaseClient # NoClient /\ lastGet' # lastGet) =>
    /\ ~lastGet'.threw
    /\ lastGet'.client = supabaseClient
    /\ UNCHANGED <<supabaseClient, clientsCreated>>
C17_ConfigErrorFatal ==
  [](C17_Absent /\ C17_Present /\ clientsCreated <= 1) /\ [][C17_Step]_vars
\* a handler's getSupabase() found the cached client and its call is out
C17_Witness ==
  /\ lastGet.hit
  /\ lastGet.client = 1
  /\ clientsCreated = 1
  /\ BagCardinality(calls) > 0

\* C18 -- sign-in, sign-up and password-reset failures are recovered
\* locally.  When signInWithPassword, signUp or resetPasswordForEmail
\* settles with an error, the form's error text is the provider's message,
\* loading is false, the location is unchanged and no success flag is set
\* (forgotSent is left as it was, and is false after a failed reset);
\* forgotPassword resolves with {error: message}, and with {error: null}
\* when the provider reports no error.
C18_Step ==
  LET a == lastAnswer' IN
  (a # lastAnswer
     /\ a.op \in {"signInWithPassword", "signUp", "resetPasswordForEmail"}) =>
    IF a.error # NoAuthError THEN
      /\ href' = href
      /\ IF a.form = "SignIn"
           THEN /\ signIn'.error = a.error.message
                /\ ~signIn'.loading
                /\ signIn'.forgotSent = signIn.forgotSent
                /\ a.op = "resetPasswordForEmail" => ~signIn'.forgotSent
           ELSE /\ signUp'.error = a.error.message
                /\ ~signUp'.loading
                /\ ~signUp'.success
      /\ a.op = "resetPasswordForEmail" =>
           forgotResult' = [returned |-> TRUE, error |-> a.error.message]
    ELSE
      a.op = "resetPasswordForEmail" =>
        forgotResult' = [returned |-> TRUE, error |-> NoError]
C18_FailuresRecoveredLocally == [][C18_Step]_vars
\* a failed sign-in has left its message on the form
C18_Witness ==
  /\ lastAnswer.op = "signInWithPassword"
  /\ signIn.error = "Invalid login credentials"
  /\ ~signIn.loading
  /\ href = page

\* C19 -- every provider operation's failure message is surfaced.  When a
\* provider call of a form settles with an error, the form's error text is
\* the provider's message after the handler has run.
C19_Step ==
  LET a == lastAnswer' IN
  (a # lastAnswer /\ a.error # NoAuthError) =>
    IF a.form = "SignIn" THEN signIn'.error = a.error.message
                         ELSE signUp'.error = a.error.message
C19_FailureSurfaced == [][C19_Step]_vars

\* C21 -- stale-while-revalidate with atomic replace.  Every step that ends
\* with a role query in flight (the step that issues it included) leaves
\* roles as it was and loading true; the step in which that query settles
\* replaces roles by the query's result and sets loading false at once.
C21_InFlight ==
  (roleMounted' /\ LiveQueries(roleQueries') # {}) =>
    /\ roles' = roles
    /\ rolesLoading'
C21_Settle ==
  (LiveQueries(roleQueries) # {} /\ LiveQueries(roleQueries') = {}
     /\ roleMounted' /\ roleDeps' = roleDeps) =>
    /\ roleSettled'.kind # "none"
    /\ roles' = roleSettled'.data
    /\ ~rolesLoading'
C21_StaleWhileRevalidate == [][C21_InFlight /\ C21_Settle]_vars
\* u2's query is in flight while roles still holds u1's 'editor'
C21_Witness ==
  /\ roleDeps = RoleDepsNow
  /\ LiveQueries(roleQueries) # {}
  /\ roles = {"editor"}
  /\ userId = "u2"
  /\ rolesLoading

C23_EmissionOrder ==
  (authMounted /\ fetch.phase = "settled") => session = providerSession

\* C27 -- isLoaded means the provider has responded.  useAuth().isLoaded is
\* false before the provider has delivered anything and true once the
\* initial fetch has settled or a notification has delivered a session.
C27_IsLoadedMeansResponded ==
  authMounted =>
    (useAuth.isLoaded <=> (fetch.phase = "settled" \/ session # NoSession))

\* C28 -- no mutation after provider teardown.  Once AuthProvider is
\* unmounted, no step (a provider notification, the late settlement of the
\* initial fetch, a sign-out) changes session or isLoaded.
C28_Step == ~authMounted => UNCHANGED <<session, isLoaded>>
C29_MutuallyExclusive ==
  /\ ~(SignedIn = "children" /\ SignedOut = "children")
  /\ ~isLoaded => (SignedIn = "nothing" /\ SignedOut = "nothing")
  /\ isLoaded => /\ (SignedIn = "children") # (SignedOut = "children")
                 /\ (SignedIn = "children") <=> (session # NoSession)
\* no session yet and the fetch not settled: neither renders
C29_Witness ==
  /\ authMounted
  /\ ~isLoaded
  /\ session = NoSession
  /\ fetch.phase = "read"
  /\ SignedOut = "nothing"

\* C30 -- the two session hooks agree.  useUser() and useAuth() report the
\* same isLoaded and the same isSignedIn, and useUser().user is non-null
\* exactly when useAuth().userId is non-null.
C30_HooksAgree ==
  authMounted =>
    /\ useUser.isLoaded = useAuth.isLoaded
    /\ useUser.isSignedIn = useAuth.isSignedIn
    /\ (useUser.user # NoSession) <=> (useAuth.userId # NoUser)

\* C24 -- no mutation after teardown in the resolvers.  Once the component
\* using useAppRole is unmounted no step changes roles or its loading, and
\* once the component using useSubscription is unmounted no step changes
\* subscription or its loading, however the query in flight settles.
C24_Step ==
  /\ ~roleMounted => UNCHANGED <<roles, rolesLoading>>
  /\ ~subMounted => UNCHANGED <<subscription, subLoading>>
C24_NoMutationAfterTeardown == [][C24_Step]_vars
\* both components were unmounted with their query in flight (loading is
\* still true) and both queries have settled since
C24_Witness ==
  /\ ~roleMounted /\ ~subMounted
  /\ roleDeps.userId = "u1" /\ roleDeps.app = "event"
  /\ subDeps.userId = "u1"
  /\ rolesLoading /\ subLoading
  /\ roleQueries = EmptyBag /\ subQueries = EmptyBag

\* C25 -- one query per key change.  For a signed-in user without the
\* privileged claim and a known app: at most one role query is issued
\* between two changes of the (user id, app) pair, and exactly one once
\* the effect has run for the pair; that query is filtered by the pair's
\* user id and app; and once it has settled loading stays false until the
\* pair changes, however many sessions with the same user id the provider
\* delivers in between.
C25_OneQueryPerKey ==
  (userId # NoUser /\ ~useIsSuperAdmin /\ app # NoApp) =>
    /\ keyLog.issued <= 1
    /\ keyLog.resolved => ~useAppRole.loading
    /\ (roleDeps.userId = userId /\ roleDeps.app = app) =>
         /\ keyLog.issued = 1
         /\ IF keyLog.resolved
              THEN LiveQueries(roleQueries) = {}
              ELSE LiveQueries(roleQueries) =
                     {[user |-> userId, app |-> app, cancelled |-> FALSE]}
\* u1's query was issued once and has settled; the provider has delivered
\* another session for u1 since, and roles are still resolved
C25_Witness ==
  /\ userId = "u1"
  /\ keyLog = [issued |-> 1, replaced |-> TRUE, resolved |-> TRUE]
  /\ roleDeps = RoleDepsNow
  /\ roleQueries = EmptyBag
  /\ roles = {"editor"}
  /\ ~useAppRole.loading

\* C26 -- app resolution order.  getCurrentApp() returns the app of the
\* hostname when the hostname is a key of APP_CONFIG, whatever VITE_APP_ID
\* is; otherwise VITE_APP_ID when that is one of the eleven app ids;
\* otherwise null.  What it returns is always one of the eleven ids or
\* null, and never a VITE_APP_ID that is not one of them.
C26_Expected ==
  IF hostname \in DOMAIN APP_CONFIG_Own THEN APP_CONFIG_Own[hostname]
  ELSE IF viteAppId \in AppIds THEN viteAppId
  ELSE NoApp
C26_ResolutionOrder ==
  currentApp # NotCalled =>
    /\ currentApp = C26_Expected
    /\ currentApp \in AppIds \cup {NoApp}
    /\ (viteAppId \notin AppIds /\ viteAppId # Undefined) => currentApp # viteAppId
\* the same for every hostname that Object.prototype has no property for
C26_OwnKeysOnly ==
  (currentApp # NotCalled /\ hostname \notin ObjectPrototype) =>
    /\ currentApp = C26_Expected
    /\ currentApp \in AppIds \cup {NoApp}
\* on www.myrestogarage.com in a build with VITE_APP_ID=show the call
\* returned garage
C26_Witness ==
  /\ hostname = "www.myrestogarage.com"
  /\ viteAppId = "show"
  /\ currentApp = "garage"

\* C20 -- loading state machine.  Whenever a signed-in user without the
\* privileged claim is current, the app is known and no query has settled
\* for the current (user, app), useAppRole reports loading = true; once the
\* query of the current key has settled it reports loading = false.
C20_LoadingStateMachine ==
  (roleMounted /\ userId # NoUser /\ ~useIsSuperAdmin /\ app # NoApp) =>
    IF roleDeps = RoleDepsNow /\ roleSettled.kind # "none"
      THEN ~useAppRole.loading
      ELSE useAppRole.loading

====
